---- MODULE Spec2Model ----
(***************************************************************************)
(* Model of src/main.py: a command-line front end that loads a policy file *)
(* and a data file, extracts the schema under the policy's "schema" key,   *)
(* delegates validation to jsonschema.validate and prints the outcome.     *)
(*                                                                         *)
(* Strings of the program are sequences of one-character strings, so that  *)
(* str.endswith and the substring test of `in` are computed, not assumed.  *)
(***************************************************************************)
EXTENDS Integers, Sequences, FiniteSets, TLC

(***************************************************************************)
(* Strings                                                                 *)
(***************************************************************************)
S_schema == <<"s", "c", "h", "e", "m", "a">>
S_notschema == <<"n", "o", "t">> \o S_schema
S_my_schema == <<"m", "y", " ">> \o S_schema
S_abc == <<"a", "b", "c">>
S_name == <<"n", "a", "m", "e">>
S_age == <<"a", "g", "e">>
S_alice == <<"a", "l", "i", "c", "e">>
S_type == <<"t", "y", "p", "e">>
S_required == <<"r", "e", "q", "u", "i", "r", "e", "d">>
S_properties == <<"p", "r", "o", "p", "e", "r", "t", "i", "e", "s">>
S_object == <<"o", "b", "j", "e", "c", "t">>
S_array == <<"a", "r", "r", "a", "y">>
S_string == <<"s", "t", "r", "i", "n", "g">>
S_number == <<"n", "u", "m", "b", "e", "r">>
S_integer == <<"i", "n", "t", "e", "g", "e", "r">>
S_boolean == <<"b", "o", "o", "l", "e", "a", "n">>
S_null == <<"n", "u", "l", "l">>

Suffix_yaml == <<".", "y", "a", "m", "l">>
Suffix_yml == <<".", "y", "m", "l">>
Suffix_json == <<".", "j", "s", "o", "n">>
Suffix_txt == <<".", "t", "x", "t">>
Suffix_JSON == <<".", "J", "S", "O", "N">>

\* str.endswith(suffix): the last Len(suffix) characters equal suffix.
EndsWith(s, suffix) ==
    /\ Len(s) >= Len(suffix)
    /\ SubSeq(s, Len(s) - Len(suffix) + 1, Len(s)) = suffix

\* `sub in s` for two Python strings: sub occurs as a contiguous slice of s.
IsSubstring(sub, s) ==
    \E i \in 1..(Len(s) + 1) :
        /\ i + Len(sub) - 1 <= Len(s)
        /\ SubSeq(s, i, i + Len(sub) - 1) = sub

(***************************************************************************)
(* Parsed documents: the tree yaml.safe_load and json.load return.         *)
(***************************************************************************)
Null == [kind |-> "null"]
Bool(b) == [kind |-> "bool", b |-> b]
Num(n) == [kind |-> "num", n |-> n]
Str(s) == [kind |-> "str", chars |-> s]
List(items) == [kind |-> "seq", items |-> items]
Map(fields) == [kind |-> "map", fields |-> fields]

NoFields == [k \in {} |-> Null]
Field(k, v) == [x \in {k} |-> v]
Merge(f, g) == [x \in (DOMAIN f) \cup (DOMAIN g) |-> IF x \in DOMAIN f THEN f[x] ELSE g[x]]

(***************************************************************************)
(* jsonschema.validate(instance, schema), for the keywords the documents   *)
(* of this model use: boolean schemas, "type", "required", "properties".   *)
(* Unknown keywords are ignored, as the library ignores them.              *)
(***************************************************************************)
TypeNames == {S_object, S_array, S_string, S_number, S_integer, S_boolean, S_null}

\* One JSON Schema type name against an instance.
IsType(d, t) ==
    \/ t = S_object /\ d.kind = "map"
    \/ t = S_array /\ d.kind = "seq"
    \/ t = S_string /\ d.kind = "str"
    \/ t = S_number /\ d.kind = "num"
    \/ t = S_integer /\ d.kind = "num"
    \/ t = S_boolean /\ d.kind = "bool"
    \/ t = S_null /\ d.kind = "null"

IsTypeName(v) == v.kind = "str" /\ v.chars \in TypeNames

HasKey(m, k) == m.kind = "map" /\ k \in DOMAIN m.fields

\* check_schema: the schema against the metaschema.  A schema is a boolean or
\* an object; "type" is a type name or a non-empty list of type names;
\* "required" is a list of strings; "properties" maps names to schemas.
RECURSIVE WellFormedSchema(_)
WellFormedSchema(s) ==
    \/ s.kind = "bool"
    \/ /\ s.kind = "map"
       /\ HasKey(s, S_type) =>
             LET t == s.fields[S_type] IN
             \/ IsTypeName(t)
             \/ /\ t.kind = "seq"
                /\ Len(t.items) > 0
                /\ \A i \in 1..Len(t.items) : IsTypeName(t.items[i])
       /\ HasKey(s, S_required) =>
             LET r == s.fields[S_required] IN
             /\ r.kind = "seq"
             /\ \A i \in 1..Len(r.items) : r.items[i].kind = "str"
       /\ HasKey(s, S_properties) =>
             LET p == s.fields[S_properties] IN
             /\ p.kind = "map"
             /\ \A k \in DOMAIN p.fields : WellFormedSchema(p.fields[k])

\* iter_errors is empty: the instance satisfies every keyword of a well-formed
\* schema.  "required" and "properties" constrain objects only.
RECURSIVE Conforms(_, _)
Conforms(d, s) ==
    IF s.kind = "bool" THEN s.b
    ELSE
    /\ HasKey(s, S_type) =>
          LET t == s.fields[S_type] IN
          IF t.kind = "str" THEN IsType(d, t.chars)
          ELSE \E i \in 1..Len(t.items) : IsType(d, t.items[i].chars)
    /\ (HasKey(s, S_required) /\ d.kind = "map") =>
          LET r == s.fields[S_required] IN
          \A i \in 1..Len(r.items) : r.items[i].chars \in DOMAIN d.fields
    /\ (HasKey(s, S_properties) /\ d.kind = "map") =>
          LET p == s.fields[S_properties] IN
          \A k \in (DOMAIN p.fields) \cap (DOMAIN d.fields) :
              Conforms(d.fields[k], p.fields[k])

\* What the call at line 86 does: returns, raises ValidationError, or raises
\* SchemaError (an exception that is not a ValidationError).
validate(instance, schema) ==
    IF ~WellFormedSchema(schema) THEN "SchemaError"
    ELSE IF Conforms(instance, schema) THEN "returns"
    ELSE "ValidationError"

(***************************************************************************)
(* Parsers.  A file's text is modelled by its syntax class and the         *)
(* document it denotes: empty text, text that neither grammar accepts,     *)
(* JSON text (also valid YAML flow syntax), YAML block syntax (not JSON).  *)
(***************************************************************************)
Text(syntax, doc) == [syntax |-> syntax, doc |-> doc]

\* yaml.safe_load: an empty stream is None.
yaml_safe_load(text) ==
    CASE text.syntax = "empty" -> [raises |-> "none", value |-> Null]
      [] text.syntax = "garbage" -> [raises |-> "YAMLError", value |-> Null]
      [] OTHER -> [raises |-> "none", value |-> text.doc]

\* json.load: an empty stream and YAML block syntax are decode errors.
json_load(text) ==
    CASE text.syntax = "json" -> [raises |-> "none", value |-> text.doc]
      [] OTHER -> [raises |-> "JSONDecodeError", value |-> Null]

\* The with block with YAML as the fallback parser for any other suffix.
ParseBySuffix_YamlFallback(file_path, text) ==
    IF EndsWith(file_path, Suffix_json)
    THEN json_load(text)
    ELSE yaml_safe_load(text)

\* The body of the with block of load_data: parser chosen by suffix.
ParseBySuffix(file_path, text) ==
    IF EndsWith(file_path, Suffix_yaml) \/ EndsWith(file_path, Suffix_yml)
    THEN yaml_safe_load(text)
    ELSE IF EndsWith(file_path, Suffix_json)
    THEN json_load(text)
    ELSE [raises |-> "ValueError", value |-> Null]

(***************************************************************************)
(* The policy-shape test of main.                                          *)
(***************************************************************************)
\* "schema" in policy_data: key test on a mapping, element test on a
\* sequence, substring test on a string, TypeError on None, bool and numbers.
SchemaIn(policy_data) ==
    CASE policy_data.kind = "map" ->
            IF S_schema \in DOMAIN policy_data.fields THEN "true" ELSE "false"
      [] policy_data.kind = "seq" ->
            IF \E i \in 1..Len(policy_data.items) : policy_data.items[i] = Str(S_schema)
            THEN "true" ELSE "false"
      [] policy_data.kind = "str" ->
            IF IsSubstring(S_schema, policy_data.chars) THEN "true" ELSE "false"
      [] OTHER -> "TypeError"

\* The lookup written as a tolerant get: None for anything without the key.
SchemaOf_Tolerant(policy_data) ==
    IF policy_data.kind = "map" /\ S_schema \in DOMAIN policy_data.fields
    THEN [raises |-> "none", value |-> policy_data.fields[S_schema]]
    ELSE [raises |-> "none", value |-> Null]

\* policy_data["schema"]: defined for a mapping that has the key; a string
\* or a list indexed by a string raises TypeError.
SchemaOf(policy_data) ==
    IF policy_data.kind = "map"
    THEN IF S_schema \in DOMAIN policy_data.fields
         THEN [raises |-> "none", value |-> policy_data.fields[S_schema]]
         ELSE [raises |-> "KeyError", value |-> Null]
    ELSE [raises |-> "TypeError", value |-> Null]

(***************************************************************************)
(* Exceptions and log records                                              *)
(***************************************************************************)
Exc(type, msg) == [type |-> type, msg |-> msg]
NoExc == Exc("none", "")

\* What open() or the body of the with block raised, as an exception value.
RaisedBy(name) ==
    CASE name = "ValueError" -> Exc("ValueError", "Unsupported file format. Use YAML or JSON.")
      [] name = "YAMLError" -> Exc("YAMLError", "while parsing a flow node")
      [] name = "JSONDecodeError" -> Exc("JSONDecodeError", "Expecting value")
      [] name = "FileNotFoundError" -> Exc("FileNotFoundError", "No such file or directory")
      [] name = "PermissionError" -> Exc("PermissionError", "Permission denied")
      [] name = "TypeError" -> Exc("TypeError", "argument is not iterable or not subscriptable")
      [] name = "SchemaError" -> Exc("SchemaError", "is not valid under any of the given schemas")
      [] name = "ValidationError" -> Exc("ValidationError", "instance violates the schema")
      [] OTHER -> Exc(name, "")

LogLevels == {"DEBUG", "INFO", "WARNING", "ERROR", "CRITICAL"}

\* logging's numeric levels.
LevelNo(l) ==
    CASE l = "DEBUG" -> 10
      [] l = "INFO" -> 20
      [] l = "WARNING" -> 30
      [] l = "ERROR" -> 40
      [] l = "CRITICAL" -> 50

Log(level, msg, path, err) == [level |-> level, msg |-> msg, path |-> path, err |-> err]

MsgValid == "Data is valid according to the policy."
MsgInvalid == "Data does not conform to the defined policy."
MsgNoSchema == "Policy file must contain a 'schema' key."
MsgUnexpected == "An unexpected error occurred: "
MsgNotFound == "File not found: "
MsgLoadError == "Error loading data: "
MsgUnsupported == "Unsupported file format. Use YAML or JSON."

\* load_data without its FileNotFoundError clause.
LoadErrorLog_NoNotFound(e, file_path) ==
    CASE e.type = "YAMLError" -> Log("ERROR", "Error parsing YAML file: ", <<>>, e.msg)
      [] e.type = "JSONDecodeError" -> Log("ERROR", "Error parsing JSON file: ", <<>>, e.msg)
      [] OTHER -> Log("ERROR", MsgLoadError, <<>>, e.msg)

\* The except clauses of load_data, in their order: the record logged for
\* the exception that left the try block.
LoadErrorLog(e, file_path) ==
    CASE e.type = "FileNotFoundError" -> Log("ERROR", MsgNotFound, file_path, "")
      [] e.type = "YAMLError" -> Log("ERROR", "Error parsing YAML file: ", <<>>, e.msg)
      [] e.type = "JSONDecodeError" -> Log("ERROR", "Error parsing JSON file: ", <<>>, e.msg)
      [] OTHER -> Log("ERROR", MsgLoadError, <<>>, e.msg)

\* validate_data returning True from its last except clause.
validate_data_TrueOnError(data, schema) ==
    LET outcome == validate(data, schema) IN
    CASE outcome = "returns" ->
            [raises |-> NoExc, value |-> TRUE, logs |-> <<>>]
      [] outcome = "ValidationError" ->
            [raises |-> NoExc, value |-> FALSE,
             logs |-> <<Log("ERROR", "Validation error: ", <<>>, RaisedBy(outcome).msg)>>]
      [] OTHER ->
            [raises |-> NoExc, value |-> TRUE,
             logs |-> <<Log("ERROR", "Unexpected error during validation: ", <<>>,
                            RaisedBy(outcome).msg)>>]

\* validate_data without its last except clause: an exception that is not a
\* ValidationError leaves the function.
validate_data_NoCatchAll(data, schema) ==
    LET outcome == validate(data, schema) IN
    CASE outcome = "returns" ->
            [raises |-> NoExc, value |-> TRUE, logs |-> <<>>]
      [] outcome = "ValidationError" ->
            [raises |-> NoExc, value |-> FALSE,
             logs |-> <<Log("ERROR", "Validation error: ", <<>>, RaisedBy(outcome).msg)>>]
      [] OTHER ->
            [raises |-> RaisedBy(outcome), value |-> FALSE, logs |-> <<>>]

\* validate_data: the result, the exception that leaves it, the records logged.
validate_data(data, schema) ==
    LET outcome == validate(data, schema) IN
    CASE outcome = "returns" ->
            [raises |-> NoExc, value |-> TRUE, logs |-> <<>>]
      [] outcome = "ValidationError" ->
            [raises |-> NoExc, value |-> FALSE,
             logs |-> <<Log("ERROR", "Validation error: ", <<>>, RaisedBy(outcome).msg)>>]
      [] OTHER ->
            [raises |-> NoExc, value |-> FALSE,
             logs |-> <<Log("ERROR", "Unexpected error during validation: ", <<>>,
                            RaisedBy(outcome).msg)>>]

(***************************************************************************)
(* The files a run is given                                                *)
(***************************************************************************)
\* Scenario A's schema: an object that requires a string "name".
SchemaNameRequired ==
    Map(Merge(Field(S_type, Str(S_object)),
        Merge(Field(S_required, List(<<Str(S_name)>>)),
              Field(S_properties, Map(Field(S_name, Map(Field(S_type, Str(S_string)))))))))
SchemaAny == Map(NoFields)
SchemaNone == Bool(FALSE)
SchemaBadType == Map(Field(S_type, Num(5)))

Schemas == {SchemaNameRequired, SchemaAny, SchemaNone, SchemaBadType, Null}

PolicyDocs ==
    {Map(Field(S_schema, s)) : s \in Schemas}
    \cup {Map(Field(S_notschema, Map(NoFields))),
          Null, Num(5), Bool(TRUE),
          Str(S_abc), Str(S_my_schema),
          List(<<Num(1)>>), List(<<Str(S_schema)>>)}

DataDocs ==
    {Map(Field(S_name, Str(S_alice))),
     Map(Field(S_age, Num(5))),
     Map(Field(S_name, Num(5)))}

PolicyTexts ==
    {Text("empty", Null), Text("garbage", Null),
     Text("yaml_block", Map(Field(S_schema, SchemaNameRequired)))}
    \cup {Text("json", d) : d \in PolicyDocs}

DataTexts ==
    {Text("empty", Null), Text("garbage", Null),
     Text("yaml_block", Map(Field(S_name, Str(S_alice))))}
    \cup {Text("json", d) : d \in DataDocs}

File(status, text) == [status |-> status, text |-> text]

\* A path that does not exist or cannot be read has no text to speak of.
FilesOver(texts) ==
    {File("missing", Text("empty", Null)), File("unreadable", Text("empty", Null))}
    \cup {File("ok", x) : x \in texts}

PolicyPaths == {<<"p">> \o s : s \in {Suffix_yaml, Suffix_yml, Suffix_json, Suffix_txt, Suffix_JSON}}
\* The data path may also be the policy's own path: one file, read twice.
DataPaths == {<<"d">> \o s : s \in {Suffix_yaml, Suffix_json, Suffix_txt}}
             \cup {<<"p">> \o Suffix_json}

\* How many times the tool is run on the same files.
MaxRuns == 2

(***************************************************************************)
(* State                                                                   *)
(***************************************************************************)
VARIABLES
    policy_file,        \* args.policy_file
    data_file,          \* args.data_file
    log_level,          \* args.log_level
    fs,                 \* the file system: path -> [status, text]
    pc,                 \* position of the run
    which,              \* the load_data call in progress: "policy" or "data"
    handles,            \* paths with an open file handle
    exc,                \* the exception propagating, NoExc if none
    data,               \* load_data's local `data`
    policy_data,        \* main's locals
    data_to_validate,
    schema,
    is_valid,
    stdout,             \* sentences printed
    logcalls,           \* records passed to the root logger
    exit_code,          \* the process's exit status, NotExited while running
    events,             \* the run's trace of steps
    run,                \* number of the run in progress
    prev                \* stdout, stderr and exit status of the previous run

vars == <<policy_file, data_file, log_level, fs, pc, which, handles, exc, data,
          policy_data, data_to_validate, schema, is_valid, stdout, logcalls,
          exit_code, events, run, prev>>

inputs == <<policy_file, data_file, fs>>
locals == <<policy_data, data_to_validate, schema, is_valid>>

NotExited == -1
Unset == [kind |-> "unset"]
NoPrev == [stdout |-> <<>>, stderr |-> <<>>, exit_code |-> NotExited]

\* The records the root logger emits at the level set at line 105.
Emitted(calls, level) ==
    SelectSeq(calls, LAMBDA r : LevelNo(r.level) >= LevelNo(level))

stderr == Emitted(logcalls, log_level)

FilePath == IF which = "policy" THEN policy_file ELSE data_file

\* The state of a run at the entry of main's try block.
Start ==
    /\ pc = "open"
    /\ which = "policy"
    /\ handles = {}
    /\ exc = NoExc
    /\ data = Unset
    /\ policy_data = Unset
    /\ data_to_validate = Unset
    /\ schema = Unset
    /\ is_valid = FALSE
    /\ stdout = <<>>
    /\ logcalls = <<>>
    /\ exit_code = NotExited
    /\ events = <<>>

Init ==
    /\ policy_file \in PolicyPaths
    /\ data_file \in DataPaths
    /\ log_level \in LogLevels
    /\ \E pf \in FilesOver(PolicyTexts), df \in FilesOver(DataTexts) :
          fs = [x \in {policy_file, data_file} |-> IF x = policy_file THEN pf ELSE df]
    /\ Start
    /\ run = 1
    /\ prev = NoPrev

(***************************************************************************)
(* load_data(file_path), lines 51-71                                       *)
(***************************************************************************)
\* Line 52, open(file_path, "r"): a handle, or FileNotFoundError, or another
\* OSError for a path that exists and cannot be read.
OpenFile ==
    /\ pc = "open"
    /\ LET f == fs[FilePath] IN
       CASE f.status = "missing" ->
               /\ exc' = RaisedBy("FileNotFoundError")
               /\ pc' = "except"
               /\ UNCHANGED <<handles, events>>
         [] f.status = "unreadable" ->
               /\ exc' = RaisedBy("PermissionError")
               /\ pc' = "except"
               /\ UNCHANGED <<handles, events>>
         [] OTHER ->
               /\ handles' = handles \cup {FilePath}
               /\ events' = Append(events, "open_" \o which)
               /\ pc' = "body"
               /\ exc' = exc
    /\ UNCHANGED <<inputs, log_level, which, data, locals, stdout, logcalls,
                   exit_code, run, prev>>

\* Lines 53-58, the body of the with block: parse by suffix, or ValueError.
ParseFile ==
    /\ pc = "body"
    /\ LET r == ParseBySuffix(FilePath, fs[FilePath].text) IN
       IF r.raises = "none"
       THEN data' = r.value /\ exc' = exc
       ELSE exc' = RaisedBy(r.raises) /\ data' = data
    /\ pc' = "with_exit"
    /\ UNCHANGED <<inputs, log_level, which, handles, locals, stdout, logcalls,
                   exit_code, events, run, prev>>

\* The file closed by an explicit f.close() after the parse rather than by
\* the with block: an exception in the body leaves the handle open.
CloseFile_LeakOnError ==
    /\ pc = "with_exit"
    /\ handles' = IF exc = NoExc THEN handles \ {FilePath} ELSE handles
    /\ events' = IF exc = NoExc THEN Append(events, "close_" \o which) ELSE events
    /\ pc' = IF exc = NoExc THEN "return" ELSE "except"
    /\ UNCHANGED <<inputs, log_level, which, exc, data, locals, stdout, logcalls,
                   exit_code, run, prev>>

\* Line 52, leaving the with block: the handle is closed on every path out.
CloseFile ==
    /\ pc = "with_exit"
    /\ handles' = handles \ {FilePath}
    /\ events' = Append(events, "close_" \o which)
    /\ pc' = IF exc = NoExc THEN "return" ELSE "except"
    /\ UNCHANGED <<inputs, log_level, which, exc, data, locals, stdout, logcalls,
                   exit_code, run, prev>>

\* Lines 60-71: log the failure and re-raise into main's try block.
LoadExcept ==
    /\ pc = "except"
    /\ logcalls' = Append(logcalls, LoadErrorLog(exc, FilePath))
    /\ pc' = "handler"
    /\ UNCHANGED <<inputs, log_level, which, handles, exc, data, locals, stdout,
                   exit_code, events, run, prev>>

\* Line 59 and the assignment at line 108 or 109.
LoadReturn ==
    /\ pc = "return"
    /\ IF which = "policy"
       THEN /\ policy_data' = data
            /\ which' = "data"
            /\ pc' = "open"
            /\ UNCHANGED data_to_validate
       ELSE /\ data_to_validate' = data
            /\ pc' = "check"
            /\ UNCHANGED <<policy_data, which>>
    /\ data' = Unset
    /\ UNCHANGED <<inputs, log_level, handles, exc, schema, is_valid, stdout,
                   logcalls, exit_code, events, run, prev>>

(***************************************************************************)
(* main, lines 111-129                                                     *)
(***************************************************************************)
\* The policy-shape test with its SystemExit caught by the top-level handler.
CheckSchemaKey_Caught ==
    /\ pc = "check"
    /\ LET r == SchemaIn(policy_data) IN
       /\ events' = Append(events, "check")
       /\ CASE r = "TypeError" ->
                  /\ exc' = RaisedBy("TypeError")
                  /\ pc' = "handler"
                  /\ UNCHANGED <<logcalls, exit_code>>
            [] r = "false" ->
                  /\ logcalls' = Append(logcalls, Log("ERROR", MsgNoSchema, <<>>, ""))
                  /\ exc' = Exc("SystemExit", "1")
                  /\ pc' = "handler"
                  /\ UNCHANGED exit_code
            [] OTHER ->
                  /\ pc' = "extract"
                  /\ UNCHANGED <<logcalls, exit_code, exc>>
    /\ UNCHANGED <<inputs, log_level, which, handles, data, locals, stdout, run, prev>>

\* Lines 111-113: the policy-shape test.  sys.exit raises SystemExit, which
\* `except Exception` does not catch.
CheckSchemaKey ==
    /\ pc = "check"
    /\ LET r == SchemaIn(policy_data) IN
       /\ events' = IF r = "false" THEN Append(Append(events, "check"), "exit")
                    ELSE Append(events, "check")
       /\ CASE r = "TypeError" ->
                  /\ exc' = RaisedBy("TypeError")
                  /\ pc' = "handler"
                  /\ UNCHANGED <<logcalls, exit_code>>
            [] r = "false" ->
                  /\ logcalls' = Append(logcalls, Log("ERROR", MsgNoSchema, <<>>, ""))
                  /\ exit_code' = 1
                  /\ pc' = "done"
                  /\ exc' = exc
            [] OTHER ->
                  /\ pc' = "extract"
                  /\ UNCHANGED <<logcalls, exit_code, exc>>
    /\ UNCHANGED <<inputs, log_level, which, handles, data, locals, stdout, run, prev>>

\* Line 115: schema = policy_data["schema"].
ExtractSchema ==
    /\ pc = "extract"
    /\ LET r == SchemaOf(policy_data) IN
       IF r.raises = "none"
       THEN /\ schema' = r.value
            /\ pc' = "validate"
            /\ exc' = exc
       ELSE /\ exc' = RaisedBy(r.raises)
            /\ pc' = "handler"
            /\ schema' = schema
    /\ UNCHANGED <<inputs, log_level, which, handles, data, policy_data,
                   data_to_validate, is_valid, stdout, logcalls, exit_code,
                   events, run, prev>>

\* Line 116: is_valid = validate_data(data_to_validate, schema).
Validate ==
    /\ pc = "validate"
    /\ events' = Append(events, "validate")
    /\ LET r == validate_data(data_to_validate, schema) IN
       /\ logcalls' = logcalls \o r.logs
       /\ IF r.raises = NoExc
          THEN /\ is_valid' = r.value
               /\ pc' = "report"
               /\ exc' = exc
          ELSE /\ exc' = r.raises
               /\ pc' = "handler"
               /\ is_valid' = is_valid
    /\ UNCHANGED <<inputs, log_level, which, handles, data, policy_data,
                   data_to_validate, schema, stdout, exit_code, run, prev>>

\* The two branches of lines 118-123 printing the same sentence.
Sentence_AlwaysValid(valid) == MsgValid

\* What lines 118-123 print for a validation result.
Sentence(valid) == IF valid THEN MsgValid ELSE MsgInvalid

\* The report with its print subject to the log level, as the two logging
\* calls beside it are.
Report_Levelled ==
    /\ pc = "report"
    /\ logcalls' = Append(logcalls,
                          Log(IF is_valid THEN "INFO" ELSE "WARNING",
                              Sentence(is_valid), <<>>, ""))
    /\ stdout' = IF LevelNo(IF is_valid THEN "INFO" ELSE "WARNING") >= LevelNo(log_level)
                 THEN Append(stdout, Sentence(is_valid)) ELSE stdout
    /\ events' = Append(Append(events, "print"), "exit")
    /\ exit_code' = 0
    /\ pc' = "done"
    /\ UNCHANGED <<inputs, log_level, which, handles, exc, data, locals, run, prev>>

\* Lines 118-123, then main returns: the interpreter exits with status 0.
Report ==
    /\ pc = "report"
    /\ logcalls' = Append(logcalls,
                          Log(IF is_valid THEN "INFO" ELSE "WARNING",
                              Sentence(is_valid), <<>>, ""))
    /\ stdout' = Append(stdout, Sentence(is_valid))
    /\ events' = Append(Append(events, "print"), "exit")
    /\ exit_code' = 0
    /\ pc' = "done"
    /\ UNCHANGED <<inputs, log_level, which, handles, exc, data, locals, run, prev>>

\* The top-level handler logging without exiting: main returns, status 0.
Handler_NoExit ==
    /\ pc = "handler"
    /\ logcalls' = Append(logcalls, Log("CRITICAL", MsgUnexpected, <<>>, exc.msg))
    /\ events' = Append(events, "exit")
    /\ exit_code' = 0
    /\ pc' = "done"
    /\ UNCHANGED <<inputs, log_level, which, handles, exc, data, locals, stdout,
                   run, prev>>

\* Lines 127-129: the top-level handler.
Handler ==
    /\ pc = "handler"
    /\ logcalls' = Append(logcalls, Log("CRITICAL", MsgUnexpected, <<>>, exc.msg))
    /\ events' = Append(events, "exit")
    /\ exit_code' = 1
    /\ pc' = "done"
    /\ UNCHANGED <<inputs, log_level, which, handles, exc, data, locals, stdout,
                   run, prev>>

\* The tool is run again on the same files, at any log level.
RunAgain ==
    /\ pc = "done"
    /\ run < MaxRuns
    /\ run' = run + 1
    /\ prev' = [stdout |-> stdout, stderr |-> stderr, exit_code |-> exit_code]
    /\ log_level' \in LogLevels
    /\ pc' = "open"
    /\ which' = "policy"
    /\ handles' = {}
    /\ exc' = NoExc
    /\ data' = Unset
    /\ policy_data' = Unset
    /\ data_to_validate' = Unset
    /\ schema' = Unset
    /\ is_valid' = FALSE
    /\ stdout' = <<>>
    /\ logcalls' = <<>>
    /\ exit_code' = NotExited
    /\ events' = <<>>
    /\ UNCHANGED inputs

Next ==
    \/ OpenFile
    \/ ParseFile
    \/ CloseFile
    \/ LoadExcept
    \/ LoadReturn
    \/ CheckSchemaKey
    \/ ExtractSchema
    \/ Validate
    \/ Report
    \/ Handler
    \/ RunAgain

Spec == Init /\ [][Next]_vars

TypeOK ==
    /\ pc \in {"open", "body", "with_exit", "except", "return", "check", "extract",
               "validate", "report", "handler", "done"}
    /\ which \in {"policy", "data"}
    /\ exit_code \in {NotExited, 0, 1}
    /\ is_valid \in BOOLEAN
    /\ run \in 1..MaxRuns

(***************************************************************************)
(* Vocabulary of the properties                                            *)
(***************************************************************************)
Range(s) == {s[i] : i \in 1..Len(s)}
Last(s) == s[Len(s)]
IsPrefix(s, u) == Len(s) <= Len(u) /\ SubSeq(u, 1, Len(s)) = s

Done == pc = "done"

Supported(path) ==
    EndsWith(path, Suffix_yaml) \/ EndsWith(path, Suffix_yml) \/ EndsWith(path, Suffix_json)

\* The file at path can be opened, and its text parses under its suffix.
Loads(path) ==
    /\ fs[path].status = "ok"
    /\ ParseBySuffix(path, fs[path].text).raises = "none"

\* The document a loadable file holds.
DocAt(path) == ParseBySuffix(path, fs[path].text).value

BothLoad == Loads(policy_file) /\ Loads(data_file)

HasSchemaKey(doc) == doc.kind = "map" /\ S_schema \in DOMAIN doc.fields

Logged(level, msg) == \E i \in 1..Len(logcalls) : logcalls[i].level = level /\ logcalls[i].msg = msg

NotFoundLogged(path) == Log("ERROR", MsgNotFound, path, "") \in Range(logcalls)

UnsupportedLogged == Log("ERROR", MsgLoadError, <<>>, MsgUnsupported) \in Range(logcalls)

Printed(sentence) == sentence \in Range(stdout)

ErrorCalls == Len(SelectSeq(logcalls, LAMBDA r : r.level = "ERROR"))

\* The order of the steps of a complete run.
FixedOrder == <<"open_policy", "close_policy", "open_data", "close_data",
                "check", "validate", "print">>

Steps == IF events # <<>> /\ Last(events) = "exit"
         THEN SubSeq(events, 1, Len(events) - 1) ELSE events

\* A load_data call has just failed: its exception is on its way to the
\* handler, and FilePath is the path it was called with.
LoadFailed == pc = "handler" /\ "check" \notin Range(events)

(***************************************************************************)
(* Properties                                                              *)
(***************************************************************************)
\* C1: the exit status of a finished run is 0 when both files load and the
\* policy document has the key "schema" (whatever validate_data returned), 1
\* when the policy document lacks the key, 1 when an exception reached the
\* top-level handler (a failed load among them), and never anything else.
C1_ExitStatus ==
    Done =>
       /\ exit_code \in {0, 1}
       /\ (BothLoad /\ HasSchemaKey(DocAt(policy_file))) => exit_code = 0
       /\ (BothLoad /\ ~HasSchemaKey(DocAt(policy_file))) => exit_code = 1
       /\ ~BothLoad => exit_code = 1
       /\ Logged("CRITICAL", MsgUnexpected) => exit_code = 1

\* A run on a malformed schema: validation is false, the status is 0.
C1_Witness ==
    /\ Done
    /\ exit_code = 0
    /\ "validate" \in Range(events)
    /\ ~is_valid
    /\ run = 1

\* C2: a finished run that reached validation printed exactly one sentence,
\* the one that matches what validate_data returned; a run that ends with
\* status 1 printed nothing; at no point are two sentences on stdout.
C2_OneSentence ==
    /\ Len(stdout) <= 1
    /\ (Done /\ "validate" \in Range(events)) =>
          LET r == validate_data(data_to_validate, schema).value IN
          /\ Len(stdout) = 1
          /\ Printed(MsgValid) <=> r
          /\ Printed(MsgInvalid) <=> ~r
    /\ (Done /\ exit_code = 1) => stdout = <<>>

\* A run whose data violates the schema printed the second sentence.
C2_Witness ==
    /\ Done
    /\ stdout = <<MsgInvalid>>
    /\ validate(data_to_validate, schema) = "ValidationError"

\* C3: once validate_data has been called, whatever jsonschema.validate did,
\* the run is at the report with a boolean result and no exception in flight,
\* exactly one error record was logged when the result is false and none when
\* it is true, and the run does not end with status 1.
C3_ValidatorNeverRaises ==
    "validate" \in Range(events) =>
       /\ pc \in {"report", "done"}
       /\ exc = NoExc
       /\ is_valid \in BOOLEAN
       /\ ErrorCalls = (IF is_valid THEN 0 ELSE 1)
       /\ ~Logged("CRITICAL", MsgUnexpected)
       /\ exit_code # 1

\* validate_data returned false for a schema the library rejects.
C3_Witness ==
    /\ pc = "report"
    /\ validate(data_to_validate, schema) = "SchemaError"
    /\ ~is_valid
    /\ ErrorCalls = 1

\* Some constraint of a schema is violated by the data: the schema is one the
\* library accepts, and the data fails a keyword of it.
ViolatesConstraint(d, s) == WellFormedSchema(s) /\ ~Conforms(d, s)

\* C4 as stated: validate_data returns false if and only if a constraint of
\* the schema is violated by the data, and true otherwise.
C4_Original ==
    pc = "report" => (is_valid <=> ~ViolatesConstraint(data_to_validate, schema))

\* C4, amended: validate_data returns true exactly when the library accepted
\* the schema and the data satisfies every constraint of it; it returns false
\* exactly when a constraint is violated or the library raised another
\* exception, such as SchemaError for a schema it rejects.
C4_Conformance ==
    pc = "report" =>
       /\ is_valid <=> (WellFormedSchema(schema) /\ Conforms(data_to_validate, schema))
       /\ ~is_valid <=> (\/ ViolatesConstraint(data_to_validate, schema)
                         \/ validate(data_to_validate, schema) = "SchemaError")

\* False for a null schema, which has no constraint to violate.
C4_Witness ==
    /\ pc = "report"
    /\ schema = Null
    /\ ~is_valid
    /\ ~ViolatesConstraint(data_to_validate, schema)

\* The policy file loads to a mapping without the key "schema".
PolicyLacksSchemaKey ==
    /\ Loads(policy_file)
    /\ DocAt(policy_file).kind = "map"
    /\ S_schema \notin DOMAIN DocAt(policy_file).fields

\* The outcome C5 describes: the policy-shape error and nothing else.
ShapeErrorExit ==
    /\ Logged("ERROR", MsgNoSchema)
    /\ stdout = <<>>
    /\ exit_code = 1
    /\ ~Logged("CRITICAL", MsgUnexpected)

\* C5 as stated: for a policy document without the key and ANY data file, the
\* run logs the policy-shape error, prints nothing, exits 1, and the critical
\* message of the top-level handler is not logged.
C5_Original == (Done /\ PolicyLacksSchemaKey) => ShapeErrorExit

\* C5, amended: the same, for any data file that loads.  When the data file
\* fails to load the run ends in the top-level handler before the key is
\* looked at: status 1, nothing printed, no policy-shape error logged.
C5_ShapeError ==
    (Done /\ PolicyLacksSchemaKey) =>
       /\ Loads(data_file) => ShapeErrorExit
       /\ ~Loads(data_file) =>
             /\ exit_code = 1
             /\ stdout = <<>>
             /\ ~Logged("ERROR", MsgNoSchema)
             /\ Logged("CRITICAL", MsgUnexpected)

\* The policy-shape exit of scenario C.
C5_Witness ==
    /\ Done
    /\ PolicyLacksSchemaKey
    /\ Loads(data_file)
    /\ Last(logcalls) = Log("ERROR", MsgNoSchema, <<>>, "")
    /\ exit_code = 1

Missing(path) == fs[path].status = "missing"

\* C6 as stated: when either path does not exist, the finished run has
\* logged "File not found" for that path and has a non-zero status.
C6_Original ==
    Done =>
       /\ Missing(policy_file) => (NotFoundLogged(policy_file) /\ exit_code # 0)
       /\ Missing(data_file) => (NotFoundLogged(data_file) /\ exit_code # 0)

\* C6, amended: a missing policy path is always logged as not found and the
\* status is 1; a missing data path always gives status 1, and load_data
\* logs it as not found when the policy file loaded; when the policy load
\* failed, load_data was never called on the data path and the only load
\* error logged is the policy's.
C6_NotFound ==
    Done =>
       /\ Missing(policy_file) => (NotFoundLogged(policy_file) /\ exit_code = 1)
       /\ Missing(data_file) =>
             /\ exit_code = 1
             /\ Loads(policy_file) => (which = "data" /\ NotFoundLogged(data_file))
             /\ ~Loads(policy_file) =>
                   /\ which = "policy"
                   /\ "open_data" \notin Range(events)
                   /\ ErrorCalls = 1
                   /\ logcalls[1] = LoadErrorLog(exc, policy_file)

\* The data path is missing, the policy loaded, the data path is reported.
C6_Witness ==
    /\ Done
    /\ Missing(data_file)
    /\ Loads(policy_file)
    /\ NotFoundLogged(data_file)
    /\ exit_code = 1

\* The failure of a load_data call that hit the unsupported-suffix branch.
FailsUnsupported ==
    /\ exc = RaisedBy("ValueError")
    /\ Last(logcalls) = Log("ERROR", MsgLoadError, <<>>, MsgUnsupported)

\* C7 as stated: a load_data call on any path without one of the three
\* suffixes fails with the unsupported-format error; a run whose data path
\* ends in .txt has that load fail so and exits 1; load_data returns only
\* for a path with one of the three suffixes.
C7_Original ==
    /\ (LoadFailed /\ ~Supported(FilePath)) => FailsUnsupported
    /\ pc = "return" => Supported(FilePath)
    /\ (Done /\ EndsWith(data_file, Suffix_txt)) => (UnsupportedLogged /\ exit_code = 1)

\* C7, amended: a load_data call on a path without one of the three suffixes
\* fails with the unsupported-format error when the file exists and can be
\* opened, and with the error of open() otherwise; a run whose data path ends
\* in .txt exits 1, and its data load fails with the unsupported-format error
\* when the policy file loaded and the data file can be opened; load_data
\* returns only for a path with one of the three suffixes.
C7_Unsupported ==
    /\ (LoadFailed /\ ~Supported(FilePath)) =>
          IF fs[FilePath].status = "ok"
          THEN FailsUnsupported
          ELSE exc.type \in {"FileNotFoundError", "PermissionError"}
    /\ pc = "return" => Supported(FilePath)
    /\ (Done /\ EndsWith(data_file, Suffix_txt)) =>
          /\ exit_code = 1
          /\ (Loads(policy_file) /\ fs[data_file].status = "ok") =>
                (which = "data" /\ exc = RaisedBy("ValueError") /\ UnsupportedLogged)

\* Scenario D: the data load failed on a .txt path that exists.
C7_Witness ==
    /\ Done
    /\ EndsWith(data_file, Suffix_txt)
    /\ which = "data"
    /\ exc = RaisedBy("ValueError")
    /\ UnsupportedLogged
    /\ exit_code = 1

\* C8: a run of the tool on the same files as the run before it, at whatever
\* log level either run used, ends with the same stdout and the same status.
C8_LogLevelIndependent ==
    (Done /\ run > 1) => (stdout = prev.stdout /\ exit_code = prev.exit_code)

\* Two runs whose log levels made their diagnostics differ, with one stdout.
C8_Witness ==
    /\ Done
    /\ run > 1
    /\ stdout # <<>>
    /\ stderr # prev.stderr
    /\ stdout = prev.stdout

\* C9: the steps of a run are a prefix of open(policy), close(policy),
\* open(data), close(data), check, validate, print, with exit last and only
\* last; at most one handle is open, and only between a file's open and its
\* close; none is open when a load failure propagates, when a load returns or
\* from the schema-key check on; the data file is opened only after the
\* policy load succeeded; validation happens at most once, after both loads
\* and the extraction of the schema.
C9_FixedOrder ==
    /\ IsPrefix(Steps, FixedOrder)
    /\ "exit" \notin Range(Steps)
    /\ ("exit" \in Range(events)) <=> Done
    /\ Cardinality(handles) <= 1
    /\ handles # {} => (pc \in {"body", "with_exit"} /\ handles = {FilePath})
    /\ pc \in {"except", "handler", "return", "check", "extract", "validate",
               "report", "done"} => handles = {}
    /\ "open_data" \in Range(events) => (Loads(policy_file) /\ policy_data = DocAt(policy_file))
    /\ "validate" \in Range(events) =>
          /\ BothLoad
          /\ data_to_validate = DocAt(data_file)
          /\ schema = DocAt(policy_file).fields[S_schema]

\* A complete run.
C9_Witness ==
    /\ Done
    /\ events = FixedOrder \o <<"exit">>
    /\ handles = {}

\* The policy file loads to something that is not a mapping.
PolicyNotMapping == Loads(policy_file) /\ DocAt(policy_file).kind # "map"

\* C10: when the policy file loads to a value that is not a mapping and the
\* data file loads, the run ends with status 1, never validates and prints
\* nothing; its last log record is the policy-shape error or the critical
\* record of the top-level handler: the former for a string without the text
\* "schema" and a sequence without the element "schema", the latter for
\* anything else.
C10_NonMappingPolicy ==
    (Done /\ PolicyNotMapping /\ Loads(data_file)) =>
       /\ exit_code = 1
       /\ "validate" \notin Range(events)
       /\ stdout = <<>>
       /\ \/ Last(logcalls) = Log("ERROR", MsgNoSchema, <<>>, "")
          \/ Last(logcalls) = Log("CRITICAL", MsgUnexpected, <<>>, RaisedBy("TypeError").msg)
       /\ (Last(logcalls).level = "ERROR") <=>
             LET d == DocAt(policy_file) IN
             \/ d.kind = "str" /\ ~IsSubstring(S_schema, d.chars)
             \/ d.kind = "seq" /\ Str(S_schema) \notin Range(d.items)

\* A policy that is a string containing "schema": the test passes, the
\* subscript raises, the handler ends the run.
C10_Witness ==
    /\ Done
    /\ policy_data = Str(S_my_schema)
    /\ Loads(data_file)
    /\ exit_code = 1
    /\ Last(logcalls).level = "CRITICAL"

====
